---- MODULE Spec2Model ----
(***************************************************************************)
(* Model of seq2seq/tasks/training_task.py: the TrainingTask class, its    *)
(* constructor and its three factory methods create_model,                 *)
(* create_training_hooks and create_metrics.                                *)
(*                                                                         *)
(* Python values are records carrying a "kind" field, so that values of    *)
(* different Python types can be compared.  A dict whose values are plain  *)
(* is a set of <<key, value>> pairs.                                       *)
(***************************************************************************)
EXTENDS Integers, Sequences, FiniteSets, TLC

\* ------------------------------------------------------------------ bounds
MaxMetrics == 2
MaxHooks == 3
MaxObjects == 4

\* --------------------------------------------------------- Python values
None == [kind |-> "NoneType"]
Class(module, name) == [kind |-> "class", module |-> module, name |-> name]
Module(name) == [kind |-> "module", name |-> name]
Instance(id, cls, args) == [kind |-> "instance", id |-> id, cls |-> cls, args |-> args]
List(items) == [kind |-> "list", items |-> items]
Dict(items) == [kind |-> "dict", items |-> items]

Range(s) == {s[i] : i \in 1..Len(s)}
SeqsUpTo(S, n) == UNION {[1..k -> S] : k \in 0..n}

\* Python truth value of the objects a name can denote: None is falsy,
\* classes and modules are truthy.
Truthy(obj) == obj # None
\* Calling a class constructs an instance; calling a module raises TypeError.
Callable(obj) == obj.kind = "class"

\* ------------------------------------------------- the name environment
\* Attributes of the package seq2seq.models.
ModelsAttrs == {"BasicSeq2Seq", "AttentionSeq2Seq", "Image2Seq"}
\* Attributes of the module seq2seq.training.hooks.
HooksAttrs == {"PrintModelAnalysisHook", "MetadataCaptureHook", "TrainSampleHook"}

\* pydoc.locate: the object a dotted path names, None when there is none.
\* A path without components ("") names the builtins module itself.
\* "Image2Seq" is a name that is importable on its own as well as being an
\* attribute of seq2seq.models.
locate(path) ==
  CASE path = "" -> Module("builtins")
    [] path = "seq2seq.models.BasicSeq2Seq" -> Class("seq2seq.models", "BasicSeq2Seq")
    [] path = "Image2Seq" -> Class("Image2Seq", "Image2Seq")
    [] path = "seq2seq.training.hooks.TrainSampleHook"
         -> Class("seq2seq.training.hooks", "TrainSampleHook")
    [] OTHER -> None

\* getattr(models, name) and getattr(hooks, name): raise AttributeError for
\* a name the namespace does not have.
getattr_models(name) ==
  IF name \in ModelsAttrs
    THEN [status |-> "ok", obj |-> Class("seq2seq.models", name)]
    ELSE [status |-> "AttributeError", obj |-> None]

getattr_hooks(name) ==
  IF name \in HooksAttrs
    THEN [status |-> "ok", obj |-> Class("seq2seq.training.hooks", name)]
    ELSE [status |-> "AttributeError", obj |-> None]

\* The metric registry seq2seq.metrics.metric_specs.METRIC_SPECS_DICT.
MetricRegistryNames == {"bleu", "log_perplexity"}
METRIC_SPECS_DICT(m) == [kind |-> "MetricSpec", name |-> m]

\* ---------------------------------------------------------------- inputs
ModelClassNames ==
  {"", "seq2seq.models.BasicSeq2Seq", "AttentionSeq2Seq", "Image2Seq", "NoSuchModel"}
ModelParamsValues == { {}, {<<"embedding.dim", 128>>} }
MetricNames == MetricRegistryNames \cup {"no_such_metric"}
HookEntries ==
  { [class |-> "PrintModelAnalysisHook", params |-> {}],
    [class |-> "MetadataCaptureHook", params |-> {<<"step", 5>>}],
    [class |-> "seq2seq.training.hooks.TrainSampleHook",
     params |-> {<<"every_n_steps", 1000>>}],
    [class |-> "NoSuchHook", params |-> {}],
    [class |-> "", params |-> {}] }
Modes == {"train", "eval"}
Estimators == { [model_dir |-> "/tmp/run1"], [model_dir |-> "/tmp/run2"] }

Absent == [present |-> FALSE]
Given(v) == [present |-> TRUE, v |-> v]
Opt(S) == {Absent} \cup {Given(v) : v \in S}
\* A configuration dictionary handed to the constructor: each key is given
\* or left out; "bogus" is a key default_params does not have.
Configs ==
  [ metrics : Opt(SeqsUpTo(MetricNames, MaxMetrics)),
    model_class : Opt(ModelClassNames),
    model_params : Opt(ModelParamsValues),
    hooks : Opt(SeqsUpTo(HookEntries, MaxHooks)),
    bogus : {Absent} ]
  \cup
  [ metrics : {Absent},
    model_class : Opt(ModelClassNames),
    model_params : {Absent},
    hooks : {Absent},
    bogus : {Given("x")} ]

\* ----------------------------------------------------------------- state
VARIABLES task, ret, constructed, nextId
vars == <<task, ret, constructed, nextId>>

NoTask == [alive |-> FALSE]
NoCall == [op |-> "none", arg |-> None, status |-> "ok", value |-> None]

\* ----------------------------------------------------- TrainingTask code
\* hooks.PrintModelAnalysisHook.default_params() and
\* hooks.MetadataCaptureHook.default_params().
hook_default_params(cls) ==
  IF cls = "MetadataCaptureHook" THEN {<<"step", 10>>} ELSE {}

\* Mutant: the two default hooks listed in the other order.
default_params_swapped_hooks ==
  [ metrics |-> <<>>,
    model_class |-> "",
    model_params |-> {},
    hooks |-> << [class |-> "MetadataCaptureHook",
                  params |-> hook_default_params("MetadataCaptureHook")],
                 [class |-> "PrintModelAnalysisHook",
                  params |-> hook_default_params("PrintModelAnalysisHook")] >> ]

default_params ==
  [ metrics |-> <<>>,
    model_class |-> "",
    model_params |-> {},
    hooks |-> << [class |-> "PrintModelAnalysisHook",
                  params |-> hook_default_params("PrintModelAnalysisHook")],
                 [class |-> "MetadataCaptureHook",
                  params |-> hook_default_params("MetadataCaptureHook")] >> ]

\* Configurable.__init__: merge the given dictionary over the defaults; a
\* key the defaults do not have is rejected.
_parse_params(params, defaults) ==
  IF params.bogus.present
    THEN [status |-> "ValueError", params |-> None]
    ELSE [status |-> "ok",
          params |-> [k \in DOMAIN defaults |->
                        IF params[k].present THEN params[k].v ELSE defaults[k]]]

\* Mutant: the models package is consulted before the dotted path.
lookup_model_cls_attr_first(name) ==
  IF getattr_models(name).status = "ok"
    THEN getattr_models(name)
    ELSE IF Truthy(locate(name))
      THEN [status |-> "ok", obj |-> locate(name)]
      ELSE getattr_models(name)

\* locate(name) or getattr(models, name)
lookup_model_cls(name) ==
  IF Truthy(locate(name))
    THEN [status |-> "ok", obj |-> locate(name)]
    ELSE getattr_models(name)

\* locate(name) or getattr(hooks, name)
lookup_hook_cls(name) ==
  IF Truthy(locate(name))
    THEN [status |-> "ok", obj |-> locate(name)]
    ELSE getattr_hooks(name)

Init ==
  /\ task = NoTask
  /\ ret = NoCall
  /\ constructed = <<>>
  /\ nextId = 1

\* TrainingTask.__init__(params)
Construct ==
  /\ ~task.alive
  /\ ret.op = "none"
  /\ \E cfg \in Configs :
       LET parsed == _parse_params(cfg, default_params)
           cls == lookup_model_cls(parsed.params.model_class)
       IN IF parsed.status # "ok"
            THEN /\ task' = NoTask
                 /\ ret' = [op |-> "__init__", arg |-> cfg,
                            status |-> parsed.status, value |-> None]
            ELSE IF cls.status # "ok"
              THEN /\ task' = NoTask
                   /\ ret' = [op |-> "__init__", arg |-> cfg,
                              status |-> cls.status, value |-> None]
              ELSE /\ task' = [alive |-> TRUE, params |-> parsed.params,
                               _model_cls |-> cls.obj]
                   /\ ret' = [op |-> "__init__", arg |-> cfg,
                              status |-> "ok", value |-> None]
  /\ UNCHANGED <<constructed, nextId>>

\* create_model(mode): self._model_cls(params=self.params["model_params"],
\* mode=mode).  id is the identity the new object gets.
create_model(self, mode, id) ==
  IF Callable(self._model_cls)
    THEN LET model == Instance(id, self._model_cls,
                               [params |-> self.params.model_params, mode |-> mode])
         IN [status |-> "ok", value |-> model, made |-> <<model>>]
    ELSE [status |-> "TypeError", value |-> None, made |-> <<>>]

\* Mutant: each new hook is inserted at the front of the list.
RECURSIVE hooks_loop_prepend(_, _, _, _)
hooks_loop_prepend(hook_list, model_dir, id, training_hooks) ==
  IF Len(training_hooks) = Len(hook_list)
    THEN [status |-> "ok", value |-> List(training_hooks), made |-> training_hooks]
    ELSE LET hook_dict == hook_list[Len(training_hooks) + 1]
             hook_cls == lookup_hook_cls(hook_dict.class)
         IN IF hook_cls.status # "ok"
              THEN [status |-> hook_cls.status, value |-> None, made |-> training_hooks]
              ELSE IF ~Callable(hook_cls.obj)
                THEN [status |-> "TypeError", value |-> None, made |-> training_hooks]
                ELSE hooks_loop_prepend(hook_list, model_dir, id + 1,
                       <<Instance(id, hook_cls.obj,
                                  [params |-> hook_dict.params,
                                   model_dir |-> model_dir])>>
                       \o training_hooks)

\* The loop of create_training_hooks over self.params["hooks"], entered
\* with the hooks appended so far; the next object gets identity id.
RECURSIVE hooks_loop(_, _, _, _)
hooks_loop(hook_list, model_dir, id, training_hooks) ==
  IF Len(training_hooks) = Len(hook_list)
    THEN [status |-> "ok", value |-> List(training_hooks), made |-> training_hooks]
    ELSE LET hook_dict == hook_list[Len(training_hooks) + 1]
             hook_cls == lookup_hook_cls(hook_dict.class)
         IN IF hook_cls.status # "ok"
              THEN [status |-> hook_cls.status, value |-> None, made |-> training_hooks]
              ELSE IF ~Callable(hook_cls.obj)
                THEN [status |-> "TypeError", value |-> None, made |-> training_hooks]
                ELSE hooks_loop(hook_list, model_dir, id + 1,
                       Append(training_hooks,
                              Instance(id, hook_cls.obj,
                                       [params |-> hook_dict.params,
                                        model_dir |-> model_dir])))

\* Mutant: every class is resolved before any hook is constructed, so a
\* failing call has constructed nothing.
create_training_hooks_resolve_first(self, estimator, id) ==
  LET r == hooks_loop(self.params.hooks, estimator.model_dir, id, <<>>)
  IN IF r.status = "ok" THEN r ELSE [r EXCEPT !.made = <<>>]

create_training_hooks(self, estimator, id) ==
  hooks_loop(self.params.hooks, estimator.model_dir, id, <<>>)

\* Mutant: every name is given the specification of the first name.
create_metrics_first_spec(self) ==
  LET metrics == self.params.metrics
  IN IF \E i \in 1..Len(metrics) : metrics[i] \notin MetricRegistryNames
       THEN [status |-> "KeyError", value |-> None]
       ELSE [status |-> "ok",
             value |-> Dict([m \in Range(metrics) |-> METRIC_SPECS_DICT(metrics[1])])]

\* Mutant: names the registry does not have are left out of the result.
create_metrics_skip_unknown(self) ==
  LET known == {m \in Range(self.params.metrics) : m \in MetricRegistryNames}
  IN [status |-> "ok", value |-> Dict([m \in known |-> METRIC_SPECS_DICT(m)])]

\* create_metrics(): {m : METRIC_SPECS_DICT[m] for m in self.params["metrics"]}
create_metrics(self) ==
  LET metrics == self.params.metrics
  IN IF \E i \in 1..Len(metrics) : metrics[i] \notin MetricRegistryNames
       THEN [status |-> "KeyError", value |-> None]
       ELSE [status |-> "ok",
             value |-> Dict([m \in Range(metrics) |-> METRIC_SPECS_DICT(m)])]

CreateModel ==
  /\ task.alive
  /\ nextId <= MaxObjects
  /\ \E mode \in Modes :
       LET r == create_model(task, mode, nextId)
       IN /\ ret' = [op |-> "create_model", arg |-> mode,
                     status |-> r.status, value |-> r.value]
          /\ constructed' = r.made
          /\ nextId' = nextId + Len(r.made)
  /\ task' = task

CreateTrainingHooks ==
  /\ task.alive
  /\ nextId + Len(task.params.hooks) <= MaxObjects + 1
  /\ \E estimator \in Estimators :
       LET r == create_training_hooks(task, estimator, nextId)
       IN /\ ret' = [op |-> "create_training_hooks", arg |-> estimator,
                     status |-> r.status, value |-> r.value]
          /\ constructed' = r.made
          /\ nextId' = nextId + Len(r.made)
  /\ task' = task

\* Mutant: the call consumes the configured metric names.
CreateMetrics_consuming ==
  /\ task.alive
  /\ LET r == create_metrics(task)
     IN ret' = [op |-> "create_metrics", arg |-> None,
                status |-> r.status, value |-> r.value]
  /\ constructed' = <<>>
  /\ task' = [task EXCEPT !.params.metrics = <<>>]
  /\ UNCHANGED nextId

CreateMetrics ==
  /\ task.alive
  /\ LET r == create_metrics(task)
     IN ret' = [op |-> "create_metrics", arg |-> None,
                status |-> r.status, value |-> r.value]
  /\ constructed' = <<>>
  /\ task' = task
  /\ UNCHANGED nextId

Next ==
  \/ Construct
  \/ CreateModel
  \/ CreateTrainingHooks
  \/ CreateMetrics

Spec == Init /\ [][Next]_vars

\* ------------------------------------------------------------ properties
DefaultKeys == {"metrics", "model_class", "model_params", "hooks"}

\* The model_class a configuration asks for: the given one or the default.
EffectiveModelClass(cfg) ==
  IF cfg.model_class.present THEN cfg.model_class.v ELSE ""

\* The name is found as a dotted path, or else as an attribute of models.
ModelClassResolves(name) == locate(name) # None \/ name \in ModelsAttrs

\* The hook class a name stands for, and whether the name stands for one.
HookClassOf(name) ==
  IF locate(name) # None THEN locate(name) ELSE Class("seq2seq.training.hooks", name)
HookClassResolves(name) ==
  IF locate(name) # None THEN locate(name).kind = "class" ELSE name \in HooksAttrs

BadHooks(hook_list) ==
  {i \in 1..Len(hook_list) : ~HookClassResolves(hook_list[i].class)}
FirstBadHook(hook_list) ==
  CHOOSE i \in BadHooks(hook_list) : \A j \in BadHooks(hook_list) : i <= j

HasUnknownMetric(metrics) ==
  \E i \in 1..Len(metrics) : metrics[i] \notin MetricRegistryNames

\* A returned value without the identities of the objects in it.
Shape(v) ==
  CASE v.kind = "instance" -> <<v.cls, v.args>>
    [] v.kind = "list" -> [i \in DOMAIN v.items |-> <<v.items[i].cls, v.items[i].args>>]
    [] OTHER -> v

\* C1: for every constructed task and every mode, create_model(mode)
\* returns a new instance of the model class resolved at construction, built
\* with params equal to the task's model_params and mode equal to the
\* argument.
C1_CreateModelReturnsNewInstance ==
  (task.alive /\ ret.op = "create_model") =>
    /\ ret.status = "ok"
    /\ ret.value.kind = "instance"
    /\ ret.value.id = nextId - 1
    /\ ret.value.cls = task._model_cls
    /\ ret.value.cls.kind = "class"
    /\ ret.value.args = [params |-> task.params.model_params, mode |-> ret.arg]

\* C2: the list create_training_hooks returns has one hook per configured
\* entry, in configuration order; the i-th hook is an instance of the class
\* the i-th entry names, built with that entry's params and with the
\* estimator's model_dir.
C2_HooksFollowConfiguration ==
  (task.alive /\ ret.op = "create_training_hooks" /\ ret.status = "ok") =>
    /\ ret.value.kind = "list"
    /\ Len(ret.value.items) = Len(task.params.hooks)
    /\ \A i \in 1..Len(task.params.hooks) :
         /\ ret.value.items[i].kind = "instance"
         /\ ret.value.items[i].cls = HookClassOf(task.params.hooks[i].class)
         /\ ret.value.items[i].args =
              [params |-> task.params.hooks[i].params,
               model_dir |-> ret.arg.model_dir]

C2_Witness ==
  /\ task.alive
  /\ ret.op = "create_training_hooks"
  /\ ret.status = "ok"
  /\ task.params.hooks =
       << [class |-> "MetadataCaptureHook", params |-> {<<"step", 5>>}],
          [class |-> "seq2seq.training.hooks.TrainSampleHook",
           params |-> {<<"every_n_steps", 1000>>}],
          [class |-> "PrintModelAnalysisHook", params |-> {}] >>
  /\ Len(ret.value.items) = 3

\* C3: create_metrics returns a list with one metric specification per
\* entry of the configured "metrics" list, so a name configured twice
\* yields two entries.
C3_MetricsIsListPerEntry ==
  (task.alive /\ ret.op = "create_metrics" /\ ret.status = "ok") =>
    /\ ret.value.kind = "list"
    /\ Len(ret.value.items) = Len(task.params.metrics)

\* C4: the model class of a task is the dotted-path result when there is
\* one, and the attribute of the models package only otherwise; when both
\* exist, create_model instantiates the dotted-path result.
C4_DottedPathBeforeModelsAttribute ==
  task.alive =>
    LET name == task.params.model_class
    IN /\ locate(name) # None => task._model_cls = locate(name)
       /\ locate(name) = None =>
            /\ name \in ModelsAttrs
            /\ task._model_cls = Class("seq2seq.models", name)
       /\ (ret.op = "create_model" /\ ret.status = "ok" /\ locate(name) # None)
            => ret.value.cls = locate(name)

C4_Witness ==
  /\ task.alive
  /\ task.params.model_class = "Image2Seq"
  /\ getattr_models("Image2Seq").status = "ok"
  /\ ret.op = "create_model"
  /\ ret.status = "ok"
  /\ ret.value.cls = Class("Image2Seq", "Image2Seq")
  /\ ret.value.cls # getattr_models("Image2Seq").obj

\* C5: after a successful construction params has exactly the default
\* keys, each given value overrides the default, and each omitted key has
\* its default value: metrics = [], model_class = "", model_params = {},
\* hooks = [PrintModelAnalysisHook, MetadataCaptureHook] with their own
\* default params.
C5_ParamsMergedOverDefaults ==
  (ret.op = "__init__" /\ ret.status = "ok") =>
    /\ task.alive
    /\ DOMAIN task.params = DefaultKeys
    /\ \A k \in DefaultKeys : ret.arg[k].present => task.params[k] = ret.arg[k].v
    /\ ~ret.arg.metrics.present => task.params.metrics = <<>>
    /\ ~ret.arg.model_class.present => task.params.model_class = ""
    /\ ~ret.arg.model_params.present => task.params.model_params = {}
    /\ ~ret.arg.hooks.present =>
         task.params.hooks =
           << [class |-> "PrintModelAnalysisHook",
               params |-> hook_default_params("PrintModelAnalysisHook")],
              [class |-> "MetadataCaptureHook",
               params |-> hook_default_params("MetadataCaptureHook")] >>

C5_Witness ==
  /\ ret.op = "__init__"
  /\ ret.status = "ok"
  /\ ~ret.arg.hooks.present
  /\ ~ret.arg.model_params.present
  /\ ret.arg.metrics.present
  /\ task.params.metrics = <<"bleu", "log_perplexity">>
  /\ task.params.model_class = "AttentionSeq2Seq"
  /\ Len(task.params.hooks) = 2

\* C6: when every configured metric name is registered, create_metrics
\* succeeds and its result associates exactly the configured names, each
\* with the specification registered under it; no configured name, no entry.
C6_MetricsByName ==
  (task.alive /\ ret.op = "create_metrics" /\ ~HasUnknownMetric(task.params.metrics)) =>
    /\ ret.status = "ok"
    /\ ret.value.kind = "dict"
    /\ DOMAIN ret.value.items = Range(task.params.metrics)
    /\ \A m \in Range(task.params.metrics) : ret.value.items[m] = METRIC_SPECS_DICT(m)
    /\ task.params.metrics = <<>> => DOMAIN ret.value.items = {}

C6_Witness ==
  /\ task.alive
  /\ ret.op = "create_metrics"
  /\ ret.status = "ok"
  /\ task.params.metrics = <<"log_perplexity", "bleu">>
  /\ DOMAIN ret.value.items = {"bleu", "log_perplexity"}

\* C7: every task has a resolved, non-null model class; a model_class that
\* resolves neither as a dotted path nor as an attribute of models makes
\* construction fail; construction with the default model_class "" fails.
C7_EveryTaskHasModelClass ==
  /\ task.alive => (task._model_cls # None /\ task._model_cls.kind = "class")
  /\ (ret.op = "__init__" /\ ~ModelClassResolves(EffectiveModelClass(ret.arg)))
       => (ret.status # "ok" /\ ~task.alive)
  /\ (ret.op = "__init__" /\ EffectiveModelClass(ret.arg) = "")
       => (ret.status # "ok" /\ ~task.alive)

\* C8: a metric name the registry does not have is accepted by the
\* constructor; create_metrics then fails and returns nothing, wherever the
\* name stands in the list.
C8_UnknownMetricFailsWholeCall ==
  /\ (task.alive /\ ret.op = "create_metrics" /\ HasUnknownMetric(task.params.metrics))
       => (ret.status = "KeyError" /\ ret.value = None)
  /\ (/\ ret.op = "__init__"
      /\ ~ret.arg.bogus.present
      /\ ModelClassResolves(EffectiveModelClass(ret.arg))
      /\ ret.arg.metrics.present
      /\ HasUnknownMetric(ret.arg.metrics.v))
       => (ret.status = "ok" /\ task.alive /\ task.params.metrics = ret.arg.metrics.v)

C8_Witness ==
  /\ task.alive
  /\ ret.op = "create_metrics"
  /\ ret.status = "KeyError"
  /\ ret.value = None
  /\ task.params.metrics = <<"bleu", "no_such_metric">>

\* C9: a hook entry that names no hook class is accepted by the
\* constructor; create_training_hooks then fails at the first such entry and
\* returns no list, having constructed the hooks of all earlier entries, in
\* order, and none for any later entry.
C9_HooksFailAtFirstBadEntry ==
  /\ (task.alive /\ ret.op = "create_training_hooks" /\ BadHooks(task.params.hooks) # {})
       => LET k == FirstBadHook(task.params.hooks)
          IN /\ ret.status # "ok"
             /\ ret.value = None
             /\ Len(constructed) = k - 1
             /\ \A j \in 1..(k - 1) :
                  /\ constructed[j].cls = HookClassOf(task.params.hooks[j].class)
                  /\ constructed[j].args.params = task.params.hooks[j].params
  /\ (/\ ret.op = "__init__"
      /\ ~ret.arg.bogus.present
      /\ ModelClassResolves(EffectiveModelClass(ret.arg))
      /\ ret.arg.hooks.present
      /\ BadHooks(ret.arg.hooks.v) # {})
       => (ret.status = "ok" /\ task.alive /\ task.params.hooks = ret.arg.hooks.v)

C9_Witness ==
  /\ task.alive
  /\ ret.op = "create_training_hooks"
  /\ ret.status = "AttributeError"
  /\ task.params.hooks =
       << [class |-> "PrintModelAnalysisHook", params |-> {}],
          [class |-> "NoSuchHook", params |-> {}],
          [class |-> "MetadataCaptureHook", params |-> {<<"step", 5>>}] >>
  /\ Len(constructed) = 1
  /\ constructed[1].cls = Class("seq2seq.training.hooks", "PrintModelAnalysisHook")

\* C10: no call of create_model, create_training_hooks or create_metrics,
\* successful or failing, changes the task's params or its model class; and
\* a call repeated with the same argument ends the same way with a result
\* of the same classes, parameters and metric names.
C10_CallsLeaveTaskUnchanged ==
  [][ /\ task.alive => task' = task
      /\ (task.alive /\ ret'.op = ret.op /\ ret'.arg = ret.arg)
           => /\ ret'.status = ret.status
              /\ ret'.value.kind = ret.value.kind
              /\ Shape(ret'.value) = Shape(ret.value) ]_vars

C10_Witness ==
  /\ task.alive
  /\ ret.op = "create_metrics"
  /\ ret.status = "KeyError"
  /\ nextId > 2
  /\ task.params.metrics = <<"no_such_metric">>
====
